---- MODULE Spec2Model ----
(***************************************************************************)
(* Model of examples/image_matching.py: extract_deep_features splits the   *)
(* patches of one image into batches, streams them through a Queue to one  *)
(* worker thread that runs the inference session on each batch, ends the   *)
(* stream with a None poison pill, joins the worker and concatenates the   *)
(* per-batch features.  main calls extract_deep_features twice.            *)
(***************************************************************************)
EXTENDS Integers, Sequences, FiniteSets, TLC

\* ------------------------------------------------------------------ bounds
MaxPatch == 6
MaxBatchSize == 4
MaxNegBatchSize == 2
MaxFailOn == 3

PatchCounts == 0..MaxPatch
BatchSizes == (0 - MaxNegBatchSize)..MaxBatchSize
FailSchedules == 0..MaxFailOn

VARIABLES
    batch_size,     \* FLAGS.batch_size, process-wide, the same for both calls
    fail_on,        \* the sess.run invocation of this call that raises (0: none)
    call,           \* which extract_deep_features call main is in: 1 or 2
    pc,             \* position of the main thread inside extract_deep_features
    error,          \* the exception that ended the call, "none" while there is none
    num_patch,      \* all_patches.shape[0]
    loop_num,       \* lines 63-66
    i,              \* loop variable of the enqueue loop
    queue_created,  \* Queue() of line 79 has been constructed in this call
    patch_queue,    \* content of the Queue, head first
    all_feat,       \* the list the worker appends to
    wpc,            \* position of the worker thread
    patch_data,     \* the worker's local patch_data
    feat,           \* the worker's local feat
    result,         \* the value extract_deep_features returned for this call
    deep_feat,      \* main's deep_feat1 (results of the calls already returned)
    old_wpc,        \* where the previous call's worker thread was left
    threads_started,\* history: number of Thread.start() of this call
    enq_hist,       \* history: every element put on the queue in this call
    deq_hist,       \* history: every element the worker got in this call
    infer_calls     \* history: number of sess.run invocations of this call

vars == <<batch_size, fail_on, call, pc, error, num_patch, loop_num, i,
          queue_created, patch_queue, all_feat, wpc, patch_data, feat,
          result, deep_feat, old_wpc, threads_started, enq_hist, deq_hist,
          infer_calls>>

\* ------------------------------------------------------------------ values

\* The patches of the image of call c: patch k of image c, k = 1..n.
AllPatches(c, n) == [k \in 1..n |-> [img |-> c, idx |-> k]]

\* The feature vector the session computes for one patch.
Feature(p) == [feat_of |-> p]

\* sess.run on one batch: one feature per patch, in the batch's order.
SessRun(batch) == [k \in 1..Len(batch) |-> Feature(batch[k])]

\* What travels through the queue: a batch, or the poison pill None.
QBatch(d) == [tag |-> "batch", data |-> d]
QNone == [tag |-> "None", data |-> <<>>]

Min(a, b) == IF a < b THEN a ELSE b
Max(a, b) == IF a > b THEN a ELSE b
Abs(a) == IF a < 0 THEN 0 - a ELSE a

\* Python's a % b for b # 0: the result has the sign of the divisor.
PyMod(a, b) == IF b > 0 THEN a % b ELSE 0 - ((0 - a) % (0 - b))

\* int(p / q) for integers p, q, q # 0: true division, truncated towards zero.
TruncDiv(p, q) ==
    IF (p >= 0) = (q > 0) THEN Abs(p) \div Abs(q) ELSE 0 - (Abs(p) \div Abs(q))

\* A mutant of LoopNum: floor division in both branches.
LoopNumFloorOnly(n, bs) ==
    IF bs > 0 THEN n \div bs ELSE TruncDiv(n - bs, bs)

\* Lines 63-66, for bs # 0.  int(floor(float(n) / float(bs))) is n \div bs;
\* int(n / bs - 1) is the quotient (n - bs) / bs truncated towards zero.
LoopNum(n, bs) ==
    IF PyMod(n, bs) > 0 THEN n \div bs ELSE TruncDiv(n - bs, bs)

\* A slice index of Python, normalised against a sequence of length n.
SliceIndex(k, n) == IF k < 0 THEN Max(k + n, 0) ELSE Min(k, n)

\* s[a:b] and s[a:] of Python (0-based, end exclusive, out-of-range clamped).
PySlice(s, a, b) == SubSeq(s, SliceIndex(a, Len(s)) + 1, SliceIndex(b, Len(s)))
PySliceFrom(s, a) == SubSeq(s, SliceIndex(a, Len(s)) + 1, Len(s))

\* A mutant of BatchOf: every slice but the last runs one patch too far.
BatchOfOverlap(patches, k, bs, ln) ==
    IF k < ln THEN PySlice(patches, k * bs, (k + 1) * bs + 1)
    ELSE PySliceFrom(patches, k * bs)

\* The argument of patch_queue.put in iteration k of the enqueue loop.
BatchOf(patches, k, bs, ln) ==
    IF k < ln THEN PySlice(patches, k * bs, (k + 1) * bs)
    ELSE PySliceFrom(patches, k * bs)

\* A mutant of QueueGet: the queue hands out its newest element.
QueueGetLifo(q) == [item |-> q[Len(q)], rest |-> SubSeq(q, 1, Len(q) - 1)]

\* Queue.get on a non-empty queue: the oldest element, and what is left.
QueueGet(q) == [item |-> Head(q), rest |-> Tail(q)]

\* Queue.put: the queue is unbounded, the element goes to the end.
QueuePut(q, x) == Append(q, x)

RECURSIVE Flatten(_)
Flatten(ss) == IF ss = <<>> THEN <<>> ELSE Head(ss) \o Flatten(Tail(ss))

\* np.concatenate(all_feat, axis=0) raises ValueError on an empty list.
ConcatenateRaises(fs) == fs = <<>>
Concatenate(fs) == Flatten(fs)

\* ------------------------------------------------------------------ Init

Init ==
    /\ batch_size \in BatchSizes
    /\ fail_on \in FailSchedules
    /\ num_patch \in PatchCounts
    /\ call = 1
    /\ pc = "start"
    /\ error = "none"
    /\ loop_num = 0
    /\ i = 0
    /\ queue_created = FALSE
    /\ patch_queue = <<>>
    /\ all_feat = <<>>
    /\ wpc = "unstarted"
    /\ patch_data = <<>>
    /\ feat = <<>>
    /\ result = <<>>
    /\ deep_feat = <<>>
    /\ old_wpc = "unstarted"
    /\ threads_started = 0
    /\ enq_hist = <<>>
    /\ deq_hist = <<>>
    /\ infer_calls = 0

\* ------------------------------------------------------------------ main thread

workerVars == <<wpc, patch_data, feat, deq_hist, infer_calls, threads_started>>
inputVars == <<batch_size, fail_on, call, num_patch, deep_feat, old_wpc>>

\* A mutant of MainStart: the batch size is looked at only after Queue().
MainStartAfterQueue ==
    /\ pc = "start"
    /\ IF batch_size = 0
       THEN /\ pc' = "raised"
            /\ error' = "ZeroDivisionError"
            /\ queue_created' = TRUE
            /\ UNCHANGED loop_num
       ELSE /\ pc' = "create"
            /\ loop_num' = LoopNum(num_patch, batch_size)
            /\ UNCHANGED <<error, queue_created>>
    /\ UNCHANGED <<inputVars, workerVars, i, patch_queue, all_feat, result, enq_hist>>

\* Lines 61-66: num_patch % FLAGS.batch_size raises ZeroDivisionError for a
\* batch size of 0; otherwise loop_num is computed.
MainStart ==
    /\ pc = "start"
    /\ IF batch_size = 0
       THEN /\ pc' = "raised"
            /\ error' = "ZeroDivisionError"
            /\ UNCHANGED loop_num
       ELSE /\ pc' = "create"
            /\ loop_num' = LoopNum(num_patch, batch_size)
            /\ UNCHANGED error
    /\ UNCHANGED <<inputVars, workerVars, i, queue_created, patch_queue, all_feat,
                   result, enq_hist>>

\* A mutant of MainCreate: the list and the queue are shared by all calls.
MainCreateReuse ==
    /\ pc = "create"
    /\ queue_created' = TRUE
    /\ pc' = "spawn"
    /\ UNCHANGED <<inputVars, workerVars, error, loop_num, i, result, enq_hist,
                   all_feat, patch_queue>>

\* Lines 78-79: all_feat = [] and patch_queue = Queue().
MainCreate ==
    /\ pc = "create"
    /\ all_feat' = <<>>
    /\ patch_queue' = <<>>
    /\ queue_created' = TRUE
    /\ pc' = "spawn"
    /\ UNCHANGED <<inputVars, workerVars, error, loop_num, i, result, enq_hist>>

\* Lines 80-82: the worker thread is created and started.
MainSpawn ==
    /\ pc = "spawn"
    /\ wpc' = "get"
    /\ threads_started' = threads_started + 1
    /\ i' = 0
    /\ pc' = "enqueue"
    /\ UNCHANGED <<inputVars, error, loop_num, queue_created, patch_queue, all_feat,
                   patch_data, feat, result, enq_hist, deq_hist, infer_calls>>

\* A mutant of MainEnqueue: the queue is bounded, put waits while it is full.
MainEnqueueBounded ==
    /\ pc = "enqueue"
    /\ i < loop_num + 1
    /\ Len(patch_queue) < 2
    /\ LET b == QBatch(BatchOf(AllPatches(call, num_patch), i, batch_size, loop_num))
       IN /\ patch_queue' = QueuePut(patch_queue, b)
          /\ enq_hist' = Append(enq_hist, b)
    /\ i' = i + 1
    /\ UNCHANGED <<inputVars, workerVars, pc, error, loop_num, queue_created,
                   all_feat, result>>

\* Lines 87-91: one iteration of for i in range(loop_num + 1).
MainEnqueue ==
    /\ pc = "enqueue"
    /\ i < loop_num + 1
    /\ LET b == QBatch(BatchOf(AllPatches(call, num_patch), i, batch_size, loop_num))
       IN /\ patch_queue' = QueuePut(patch_queue, b)
          /\ enq_hist' = Append(enq_hist, b)
    /\ i' = i + 1
    /\ UNCHANGED <<inputVars, workerVars, pc, error, loop_num, queue_created,
                   all_feat, result>>

\* A mutant of MainPoisonPill: the pill is forgotten.
MainPoisonPillOmitted ==
    /\ pc = "enqueue"
    /\ ~(i < loop_num + 1)
    /\ pc' = "join"
    /\ UNCHANGED <<inputVars, workerVars, error, loop_num, i, queue_created,
                   patch_queue, all_feat, result, enq_hist>>

\* A mutant of MainPoisonPill: the pill is put twice.
MainPoisonPillTwice ==
    /\ pc = "enqueue"
    /\ ~(i < loop_num + 1)
    /\ patch_queue' = QueuePut(QueuePut(patch_queue, QNone), QNone)
    /\ enq_hist' = Append(Append(enq_hist, QNone), QNone)
    /\ pc' = "join"
    /\ UNCHANGED <<inputVars, workerVars, error, loop_num, i, queue_created,
                   all_feat, result>>

\* Line 93, once the loop is exhausted: patch_queue.put(None).
MainPoisonPill ==
    /\ pc = "enqueue"
    /\ ~(i < loop_num + 1)
    /\ patch_queue' = QueuePut(patch_queue, QNone)
    /\ enq_hist' = Append(enq_hist, QNone)
    /\ pc' = "join"
    /\ UNCHANGED <<inputVars, workerVars, error, loop_num, i, queue_created,
                   all_feat, result>>

\* A mutant of MainJoin: the daemon thread is not waited for.
MainJoinNoWait ==
    /\ pc = "join"
    /\ pc' = "concat"
    /\ UNCHANGED <<inputVars, workerVars, error, loop_num, i, queue_created,
                   patch_queue, all_feat, result, enq_hist>>

\* A mutant of MainJoin: the wait ends only when the worker has returned.
MainJoinOnlyOnReturn ==
    /\ pc = "join"
    /\ wpc = "returned"
    /\ pc' = "concat"
    /\ UNCHANGED <<inputVars, workerVars, error, loop_num, i, queue_created,
                   patch_queue, all_feat, result, enq_hist>>

\* Line 95: worker_thread.join() returns once the thread has ended, by its
\* return or by an exception that escaped its target.
MainJoin ==
    /\ pc = "join"
    /\ wpc \in {"returned", "raised"}
    /\ pc' = "concat"
    /\ UNCHANGED <<inputVars, workerVars, error, loop_num, i, queue_created,
                   patch_queue, all_feat, result, enq_hist>>

\* Lines 100-103: np.concatenate, and the return (main passes qtz=False).
MainConcat ==
    /\ pc = "concat"
    /\ IF ConcatenateRaises(all_feat)
       THEN /\ pc' = "raised"
            /\ error' = "ValueError"
            /\ UNCHANGED result
       ELSE /\ pc' = "returned"
            /\ result' = Concatenate(all_feat)
            /\ UNCHANGED error
    /\ UNCHANGED <<inputVars, workerVars, loop_num, i, queue_created, patch_queue,
                   all_feat, enq_hist>>

\* Lines 115-118 of main: the first call's result becomes deep_feat1 and the
\* second call starts, on another image, with the same FLAGS and session.
MainNextCall ==
    /\ pc = "returned"
    /\ call = 1
    /\ call' = 2
    /\ deep_feat' = Append(deep_feat, result)
    /\ old_wpc' = wpc
    /\ threads_started' = 0
    /\ num_patch' \in PatchCounts
    /\ fail_on' \in FailSchedules
    /\ pc' = "start"
    /\ loop_num' = 0
    /\ i' = 0
    /\ queue_created' = FALSE
    /\ wpc' = "unstarted"
    /\ patch_data' = <<>>
    /\ feat' = <<>>
    /\ result' = <<>>
    /\ enq_hist' = <<>>
    /\ deq_hist' = <<>>
    /\ infer_calls' = 0
    /\ UNCHANGED <<batch_size, error, patch_queue, all_feat>>

\* ------------------------------------------------------------------ worker thread

mainVars == <<pc, error, loop_num, i, queue_created, result, enq_hist>>

\* A mutant of WorkerGet: None does not end the loop.
WorkerGetIgnoresNone ==
    /\ wpc = "get"
    /\ patch_queue # <<>>
    /\ LET g == QueueGet(patch_queue)
       IN /\ patch_queue' = g.rest
          /\ deq_hist' = Append(deq_hist, g.item)
          /\ IF g.item = QNone
             THEN /\ wpc' = "get"
                  /\ UNCHANGED patch_data
             ELSE /\ wpc' = "run"
                  /\ patch_data' = g.item.data
    /\ UNCHANGED <<inputVars, mainVars, all_feat, feat, infer_calls, threads_started>>

\* Lines 71-73: patch_queue.get() blocks while the queue is empty; None ends
\* the thread.
WorkerGet ==
    /\ wpc = "get"
    /\ patch_queue # <<>>
    /\ LET g == QueueGet(patch_queue)
       IN /\ patch_queue' = g.rest
          /\ deq_hist' = Append(deq_hist, g.item)
          /\ IF g.item = QNone
             THEN /\ wpc' = "returned"
                  /\ UNCHANGED patch_data
             ELSE /\ wpc' = "run"
                  /\ patch_data' = g.item.data
    /\ UNCHANGED <<inputVars, mainVars, all_feat, feat, infer_calls, threads_started>>

\* Line 74: sess.run returns the features of the batch.
WorkerRun ==
    /\ wpc = "run"
    /\ infer_calls + 1 # fail_on
    /\ infer_calls' = infer_calls + 1
    /\ feat' = SessRun(patch_data)
    /\ wpc' = "append"
    /\ UNCHANGED <<inputVars, mainVars, patch_queue, all_feat, patch_data, deq_hist,
                   threads_started>>

\* A mutant of WorkerRunRaises: the failing batch is skipped, the loop goes on.
WorkerRunRaisesSkips ==
    /\ wpc = "run"
    /\ infer_calls + 1 = fail_on
    /\ infer_calls' = infer_calls + 1
    /\ wpc' = "get"
    /\ UNCHANGED <<inputVars, mainVars, patch_queue, all_feat, patch_data, feat,
                   deq_hist, threads_started>>

\* Line 74: sess.run raises; nothing in _worker catches it, the thread ends.
WorkerRunRaises ==
    /\ wpc = "run"
    /\ infer_calls + 1 = fail_on
    /\ infer_calls' = infer_calls + 1
    /\ wpc' = "raised"
    /\ UNCHANGED <<inputVars, mainVars, patch_queue, all_feat, patch_data, feat,
                   deq_hist, threads_started>>

\* A mutant of WorkerAppend: the result is inserted at the front of the list.
WorkerAppendPrepend ==
    /\ wpc = "append"
    /\ all_feat' = <<feat>> \o all_feat
    /\ wpc' = "get"
    /\ UNCHANGED <<inputVars, mainVars, patch_queue, patch_data, feat, deq_hist,
                   infer_calls, threads_started>>

\* Lines 75-76: all_feat.append(feat); task_done only counts.
WorkerAppend ==
    /\ wpc = "append"
    /\ all_feat' = Append(all_feat, feat)
    /\ wpc' = "get"
    /\ UNCHANGED <<inputVars, mainVars, patch_queue, patch_data, feat, deq_hist,
                   infer_calls, threads_started>>

\* ------------------------------------------------------------------ specification

MainStep ==
    \/ MainStart
    \/ MainCreate
    \/ MainSpawn
    \/ MainEnqueue
    \/ MainPoisonPill
    \/ MainJoin
    \/ MainConcat
    \/ MainNextCall

WorkerStep ==
    \/ WorkerGet
    \/ WorkerRun
    \/ WorkerRunRaises
    \/ WorkerAppend

Next == MainStep \/ WorkerStep

Spec == Init /\ [][Next]_vars

\* The interpreter's thread switching lets every runnable thread run.
FairSpec == Spec /\ WF_vars(MainStep) /\ WF_vars(WorkerStep)

\* Lines 61-66 alone, over a wider range of patch counts and batch sizes.
MaxLoopPatch == 40
MaxLoopBatch == 12

LoopInit ==
    /\ batch_size \in 1..MaxLoopBatch
    /\ num_patch \in 0..MaxLoopPatch
    /\ fail_on = 0
    /\ call = 1
    /\ pc = "start"
    /\ error = "none"
    /\ loop_num = 0
    /\ i = 0
    /\ queue_created = FALSE
    /\ patch_queue = <<>>
    /\ all_feat = <<>>
    /\ wpc = "unstarted"
    /\ patch_data = <<>>
    /\ feat = <<>>
    /\ result = <<>>
    /\ deep_feat = <<>>
    /\ old_wpc = "unstarted"
    /\ threads_started = 0
    /\ enq_hist = <<>>
    /\ deq_hist = <<>>
    /\ infer_calls = 0

LoopSpec == LoopInit /\ [][MainStart]_vars

\* ------------------------------------------------------------------ properties

Finished == pc \in {"returned", "raised"}
PastPill == pc \in {"join", "concat", "returned", "raised"} /\ queue_created

\* The batches among the elements of a queue history, in order.
BatchData(h) ==
    LET bs == SelectSeq(h, LAMBDA e : e.tag = "batch")
    IN [k \in 1..Len(bs) |-> bs[k].data]

Sentinels(h) == {k \in 1..Len(h) : h[k] = QNone}

CeilDiv(n, d) == (n + d - 1) \div d

\* C1: for N >= 0 and batch_size > 0, when no inference call fails, extract
\* returns a Result of N entries whose entry k is the feature of patch k.
C1_ResultIsFeatureOfEveryPatch ==
    (Finished /\ batch_size > 0 /\ wpc # "raised")
        => /\ pc = "returned"
           /\ Len(result) = num_patch
           /\ result = SessRun(AllPatches(call, num_patch))

\* C2: when an inference call fails, extract fails: it never returns a Result.
C2_InferenceFailureFailsExtract ==
    (Finished /\ wpc = "raised") => pc = "raised"

\* C3: with batch_size > 0 and an inference that never fails, every call that
\* starts ends: the worker gets the sentinel and returns, the join completes
\* and the caller leaves extract.
C3_ExtractTerminates ==
    (pc = "start" /\ batch_size > 0 /\ fail_on = 0)
        ~> (Finished /\ wpc = "returned" /\ deq_hist # <<>>
            /\ deq_hist[Len(deq_hist)] = QNone)

C3_Witness ==
    /\ pc = "returned" /\ wpc = "returned" /\ fail_on = 0
    /\ Len(all_feat) >= 2 /\ deq_hist[Len(deq_hist)] = QNone

\* C4: for N >= 0 and batch_size >= 1 the enqueue loop puts ceil(N/batch_size)
\* batches; they are contiguous slices covering every patch once, in order;
\* each has batch_size patches except possibly the last, which has
\* N mod batch_size (batch_size for an exact multiple); none is empty.
C4_BatchSplitting ==
    batch_size > 0 =>
        LET bd == BatchData(enq_hist)
            all == AllPatches(call, num_patch)
            cnt == CeilDiv(num_patch, batch_size)
            rem == num_patch % batch_size
        IN /\ Len(bd) <= cnt
           /\ pc = "enqueue" => Len(bd) = i
           /\ Flatten(bd) = SubSeq(all, 1, Len(Flatten(bd)))
           /\ \A k \in 1..Len(bd) :
                 /\ Len(bd[k]) >= 1
                 /\ k < cnt => Len(bd[k]) = batch_size
                 /\ k = cnt => Len(bd[k]) = (IF rem = 0 THEN batch_size ELSE rem)
           /\ PastPill => (Len(bd) = cnt /\ Flatten(bd) = all)

C4_Witness ==
    /\ PastPill /\ batch_size > 1 /\ num_patch % batch_size # 0
    /\ Len(BatchData(enq_hist)) >= 2

\* C5: at most one sentinel is ever enqueued, nothing is enqueued after it,
\* and once the producer is past line 93 exactly one has been enqueued.
C5_OneSentinelLast ==
    /\ Cardinality(Sentinels(enq_hist)) <= 1
    /\ \A k \in Sentinels(enq_hist) : k = Len(enq_hist)
    /\ PastPill => Cardinality(Sentinels(enq_hist)) = 1
    /\ pc \in {"start", "create", "spawn", "enqueue"} => Sentinels(enq_hist) = {}

C5_Witness ==
    /\ PastPill /\ Len(enq_hist) >= 3
    /\ enq_hist[Len(enq_hist)] = QNone

\* C6: the worker dequeues in enqueue order, appends the results in dequeue
\* order, and the Result is the accumulator's entries in that order.
C6_NoReordering ==
    queue_created =>
        LET eb == BatchData(enq_hist)
            db == BatchData(deq_hist)
        IN /\ enq_hist = deq_hist \o patch_queue
           /\ Len(all_feat) <= Len(db)
           /\ Len(db) - Len(all_feat) <= 1
           /\ all_feat = [k \in 1..Len(all_feat) |-> SessRun(db[k])]
           /\ pc = "returned" =>
                 result = Flatten([k \in 1..Len(all_feat) |-> SessRun(eb[k])])
           /\ (pc = "returned" /\ wpc = "returned") =>
                 (db = eb /\ Len(all_feat) = Len(eb))

C6_Witness ==
    /\ pc = "returned" /\ wpc = "returned"
    /\ Len(all_feat) >= 3 /\ Len(result) > Len(all_feat)

\* C7: for N = 0 and batch_size > 0, extract returns an empty Result and
\* raises no error.
C7_EmptyInputReturnsEmpty ==
    (Finished /\ num_patch = 0 /\ batch_size > 0)
        => (pc = "returned" /\ result = <<>> /\ error = "none")

\* C8: for N = 0 and batch_size > 0 no batch is enqueued, the sentinel is
\* enqueued and delivered, and the worker ends without an inference call.
C8_EmptyInputOnlySentinel ==
    (num_patch = 0 /\ batch_size > 0) =>
        /\ BatchData(enq_hist) = <<>>
        /\ infer_calls = 0
        /\ wpc \in {"unstarted", "get", "returned"}
        /\ PastPill => enq_hist = <<QNone>>
        /\ (pc \in {"concat", "returned", "raised"} /\ queue_created)
               => (wpc = "returned" /\ deq_hist = <<QNone>> /\ patch_queue = <<>>)

C8_Witness ==
    /\ num_patch = 0 /\ batch_size > 0 /\ pc = "concat"
    /\ wpc = "returned" /\ deq_hist = <<QNone>>

\* C9: for batch_size <= 0 nothing is ever enqueued, neither a batch nor the
\* sentinel, and extract has failed before any queue or worker exists.
C9_NonPositiveBatchSizeFailsFirst ==
    batch_size <= 0 =>
        /\ enq_hist = <<>>
        /\ Finished => (~queue_created /\ wpc = "unstarted")

\* C10: for batch_size = 0 extract fails at once, before Queue() is
\* constructed and before the worker is started.
C10_ZeroBatchSizeFailsBeforeQueue ==
    batch_size = 0 =>
        /\ ~queue_created
        /\ wpc = "unstarted"
        /\ patch_queue = <<>> /\ enq_hist = <<>>
        /\ pc \in {"start", "raised"}
        /\ pc = "raised" => error = "ZeroDivisionError"

C10_Witness ==
    batch_size = 0 /\ pc = "raised" /\ error = "ZeroDivisionError"

\* The sess.run invocations of this call that returned.
Successes ==
    IF fail_on > 0 /\ infer_calls >= fail_on THEN infer_calls - 1 ELSE infer_calls

\* An inference call of this call has failed.
InferenceFailed == fail_on > 0 /\ infer_calls >= fail_on

WorkerEnded == wpc \in {"returned", "raised"}

\* C11 as claimed: a worker that has ended has consumed exactly one sentinel,
\* the sentinel being its only way out.
C11_ExactlyOneSentinelConsumed ==
    WorkerEnded => Cardinality(Sentinels(deq_hist)) = 1

\* C11 as amended: the worker consumes at most one sentinel and dequeues
\* nothing after it; it returns exactly when it has dequeued the sentinel; its
\* only other way out is a failing inference call, and then it has consumed
\* no sentinel; when no inference call fails an ended worker has consumed
\* exactly one.
C11_SentinelEndsWorker ==
    /\ Cardinality(Sentinels(deq_hist)) <= 1
    /\ \A k \in Sentinels(deq_hist) : k = Len(deq_hist)
    /\ (wpc = "returned") <=> (Sentinels(deq_hist) # {})
    /\ (wpc = "raised") <=> InferenceFailed
    /\ wpc = "raised" => Sentinels(deq_hist) = {}
    /\ (WorkerEnded /\ ~InferenceFailed) => Cardinality(Sentinels(deq_hist)) = 1

C11_Witness ==
    /\ wpc = "returned" /\ Len(deq_hist) >= 3
    /\ deq_hist[Len(deq_hist)] = QNone /\ pc = "returned"

\* C12: once an inference call has failed the worker is dead: the failing
\* call is the last inference call (no retry), its batch is the last element
\* dequeued (nothing further is consumed) and the accumulator holds only the
\* results of the batches before it (no later append).
C12_NoWorkAfterFailure ==
    InferenceFailed =>
        /\ wpc = "raised"
        /\ infer_calls = fail_on
        /\ Len(deq_hist) = fail_on
        /\ Sentinels(deq_hist) = {}
        /\ Len(all_feat) = fail_on - 1
        /\ all_feat = [k \in 1..(fail_on - 1) |-> SessRun(BatchData(enq_hist)[k])]

C12_Witness ==
    /\ InferenceFailed /\ pc = "returned" /\ fail_on = 2
    /\ Len(patch_queue) >= 2

\* C13: all_feat changes only by the worker appending its feat (and by the
\* fresh list of lines 78), and the orchestrator is at the concatenation
\* only when the worker has ended.
C13_AccumulatorReadAfterJoin ==
    /\ [](pc = "concat" => WorkerEnded)
    /\ [][all_feat' # all_feat =>
            \/ (wpc = "append" /\ wpc' = "get" /\ all_feat' = Append(all_feat, feat))
            \/ (pc = "create" /\ all_feat' = <<>>)]_vars

C13_Witness ==
    pc = "concat" /\ wpc = "returned" /\ Len(all_feat) >= 2

\* C14: each call starts exactly one worker, before anything is enqueued;
\* the previous call's worker has ended when the next call runs, so at most
\* one inference invocation is in progress at any time.
C14_OneWorkerOneInference ==
    /\ threads_started = (IF pc \in {"start", "create", "spawn"} THEN 0
                          ELSE IF pc = "raised" /\ ~queue_created THEN 0 ELSE 1)
    /\ (wpc = "unstarted") <=> (threads_started = 0)
    /\ enq_hist # <<>> => threads_started = 1
    /\ call = 2 => old_wpc \in {"returned", "raised"}
    /\ call = 1 => old_wpc = "unstarted"
    /\ Cardinality({w \in {1, 2} : <<wpc, old_wpc>>[w] = "run"}) <= 1

C14_Witness ==
    call = 2 /\ wpc = "run" /\ old_wpc = "returned" /\ infer_calls >= 1

\* C15: the main thread can take its step in every state it is in, except at
\* the join and at the end of main: a put never waits, whatever the worker
\* has done so far.
C15_ProducerNeverWaits ==
    /\ pc \in {"start", "create", "spawn", "enqueue", "concat"} => ENABLED MainStep
    /\ pc = "enqueue" => ENABLED (MainEnqueue \/ MainPoisonPill)
    /\ (pc = "returned" /\ call = 1) => ENABLED MainStep
    /\ (pc = "join" /\ ~WorkerEnded) => ~ENABLED MainStep

C15_Witness ==
    /\ pc = "join" /\ deq_hist = <<>> /\ Len(patch_queue) >= 4
    /\ ~ENABLED MainStep

\* Every patch behind the elements of a queue content, of an accumulator.
QueuedPatches(q) == Flatten(BatchData(q))
FeaturePatches(fs) == [k \in 1..Len(fs) |-> fs[k].feat_of]

\* C16: the second call's queue and accumulator start empty and hold, like
\* its Result, only what comes from the second call's patches.
C16_FreshPerCall ==
    (call = 2 /\ queue_created) =>
        /\ pc = "spawn" => (patch_queue = <<>> /\ all_feat = <<>>)
        /\ \A k \in 1..Len(QueuedPatches(patch_queue)) :
               QueuedPatches(patch_queue)[k].img = 2
        /\ \A k \in 1..Len(Flatten(all_feat)) :
               FeaturePatches(Flatten(all_feat))[k].img = 2
        /\ \A k \in 1..Len(result) : FeaturePatches(result)[k].img = 2
        /\ Len(result) <= num_patch

C16_Witness ==
    /\ call = 2 /\ old_wpc = "raised" /\ pc = "returned"
    /\ Len(result) >= 2 /\ deep_feat[1] # <<>>

\* C17: for N >= 0 and batch_size >= 1 the loop_num of lines 63-66 is
\* ceil(N / batch_size) - 1.
C17_LoopNumIsCeilMinusOne ==
    (pc = "create" /\ batch_size >= 1)
        => loop_num = CeilDiv(num_patch, batch_size) - 1

C17_Witness ==
    /\ pc = "create" /\ num_patch > 0 /\ num_patch % batch_size = 0
    /\ loop_num >= 2

\* C18: with N >= 1, batch_size >= 1 and an inference call that fails on one
\* of the batches, the call still ends: the worker dies, the join returns and
\* the rest of the stream, sentinel last, stays in the queue.
C18_FailureDoesNotHang ==
    (pc = "start" /\ batch_size >= 1 /\ num_patch >= 1
        /\ fail_on >= 1 /\ fail_on <= CeilDiv(num_patch, batch_size))
        ~> (/\ Finished
            /\ wpc = "raised"
            /\ patch_queue # <<>>
            /\ patch_queue[Len(patch_queue)] = QNone
            /\ enq_hist = deq_hist \o patch_queue)

C18_Witness ==
    /\ Finished /\ wpc = "raised" /\ fail_on = 1
    /\ Len(patch_queue) >= 3 /\ patch_queue[Len(patch_queue)] = QNone

\* C19 as claimed: the accumulator holds the results of the first k enqueued
\* batches, k being the number of batches dequeued and successfully inferred.
C19_AccumulatorHoldsInferred ==
    queue_created =>
        /\ Len(all_feat) = Successes
        /\ Successes <= Len(BatchData(enq_hist))
        /\ all_feat = [k \in 1..Successes |-> SessRun(BatchData(enq_hist)[k])]

\* C19 as amended: the accumulator holds the results of the first k enqueued
\* batches, in order, k being the number of results appended; k is the
\* number of successful inference calls, or one less between lines 74 and
\* 75; k never exceeds the number of batches enqueued; and while no inference
\* call has failed the patches are, in order, those represented in the
\* accumulator, those held by the worker, those in the queue and those not
\* yet enqueued.
C19_AccumulatorIsProcessedPrefix ==
    queue_created =>
        LET eb == BatchData(enq_hist)
            all == AllPatches(call, num_patch)
            k == Len(all_feat)
            held == IF wpc \in {"run", "append"} THEN patch_data ELSE <<>>
            waiting == SubSeq(all, Len(Flatten(eb)) + 1, Len(all))
        IN /\ k <= Len(eb)
           /\ all_feat = [j \in 1..k |-> SessRun(eb[j])]
           /\ Successes = (IF wpc = "append" THEN k + 1 ELSE k)
           /\ ~InferenceFailed =>
                 all = FeaturePatches(Flatten(all_feat)) \o held
                          \o QueuedPatches(patch_queue) \o waiting

C19_Witness ==
    /\ wpc = "append" /\ Len(all_feat) >= 1 /\ patch_queue # <<>>
    /\ pc = "enqueue" /\ i >= 3

====
